---- MODULE Spec2Model ----
(***************************************************************************)
(* GPU detection of HomeWiseAI (src-tauri): the mode flags of gpu/mod.rs,  *)
(* the orchestrator gpu::detect_gpu, the two backends nvidia::detect_gpu   *)
(* and apple::detect_gpu with the cache of apple.rs, and the command       *)
(* commands::detect_gpu.  Every load or store of a shared static is one    *)
(* step, every external utility is a step that waits for the process, and  *)
(* text produced by a utility is a sequence of one-character strings that  *)
(* the parsing operators take apart as the Rust code does.                 *)
(***************************************************************************)
EXTENDS Integers, Sequences, FiniteSets, TLC

\* the callers of detect_gpu (tasks of the async runtime): one caller makes
\* call after call while the setters run between any two of its steps
Callers == {"t1"}

(***************************************************************************)
(* Option and Result values.                                               *)
(***************************************************************************)
None == <<>>
Some(v) == <<v>>
IsSome(o) == o # <<>>
Unwrap(o) == o[1]

Ok(info) == [tag |-> "Ok", info |-> info]
Err(msg) == [tag |-> "Err", msg |-> msg]
IsOk(r) == r.tag = "Ok"
IsErr(r) == r.tag = "Err"

(***************************************************************************)
(* Text.  A string is a sequence of one-character strings.                 *)
(***************************************************************************)
Digits == <<"0", "1", "2", "3", "4", "5", "6", "7", "8", "9">>
IsDigit(ch) == \E i \in 1..10 : Digits[i] = ch
DigitVal(ch) == (CHOOSE i \in 1..10 : Digits[i] = ch) - 1
\* char::is_whitespace on the characters utilities print
IsWs(ch) == ch \in {" ", "\n", "\t", "\r"}

RECURSIVE TrimStart(_)
TrimStart(s) ==
  IF s # <<>> /\ IsWs(Head(s)) THEN TrimStart(Tail(s)) ELSE s

RECURSIVE TrimEnd(_)
TrimEnd(s) ==
  IF s # <<>> /\ IsWs(s[Len(s)]) THEN TrimEnd(SubSeq(s, 1, Len(s) - 1)) ELSE s

\* str::trim
Trim(s) == TrimEnd(TrimStart(s))

\* str::trim_end_matches(ch)
RECURSIVE TrimEndMatches(_, _)
TrimEndMatches(s, ch) ==
  IF s # <<>> /\ s[Len(s)] = ch
  THEN TrimEndMatches(SubSeq(s, 1, Len(s) - 1), ch)
  ELSE s

\* str::split(ch): the pieces between the occurrences of ch (never empty)
RECURSIVE SplitFrom(_, _, _)
SplitFrom(s, ch, cur) ==
  IF s = <<>> THEN <<cur>>
  ELSE IF Head(s) = ch THEN <<cur>> \o SplitFrom(Tail(s), ch, <<>>)
  ELSE SplitFrom(Tail(s), ch, Append(cur, Head(s)))

Split(s, ch) == SplitFrom(s, ch, <<>>)

\* Iterator::nth(n) of a split, n counted from 0
Nth(parts, n) == IF n + 1 <= Len(parts) THEN Some(parts[n + 1]) ELSE None

\* str::lines: split at "\n", no last empty line, a trailing "\r" removed
StripCr(l) == IF l # <<>> /\ l[Len(l)] = "\r" THEN SubSeq(l, 1, Len(l) - 1) ELSE l
Lines(s) ==
  LET parts == Split(s, "\n")
      kept == IF parts[Len(parts)] = <<>>
              THEN SubSeq(parts, 1, Len(parts) - 1) ELSE parts
  IN [i \in 1..Len(kept) |-> StripCr(kept[i])]

\* str::contains(sub)
Contains(s, sub) ==
  \E i \in 1..(Len(s) - Len(sub) + 1) : SubSeq(s, i, i + Len(sub) - 1) = sub

\* Iterator::find on the lines of a text
FindLine(s, sub) ==
  LET ls == Lines(s)
      hits == {i \in 1..Len(ls) : Contains(ls[i], sub)}
  IN IF hits = {} THEN None
     ELSE Some(ls[CHOOSE i \in hits : \A j \in hits : i <= j])

RECURSIVE DigitsValue(_, _)
DigitsValue(s, acc) ==
  IF s = <<>> THEN acc ELSE DigitsValue(Tail(s), acc * 10 + DigitVal(Head(s)))

AllDigits(s) == \A i \in 1..Len(s) : IsDigit(s[i])

\* u32::MAX = 4294967295 as digits
U32MaxDigits == <<"4", "2", "9", "4", "9", "6", "7", "2", "9", "5">>

RECURSIVE StripZeros(_)
StripZeros(s) ==
  IF Len(s) > 1 /\ Head(s) = "0" THEN StripZeros(Tail(s)) ELSE s

\* a <= b for two digit strings of the same length
RECURSIVE DigitsLeq(_, _)
DigitsLeq(a, b) ==
  IF a = <<>> THEN TRUE
  ELSE IF DigitVal(Head(a)) # DigitVal(Head(b))
       THEN DigitVal(Head(a)) < DigitVal(Head(b))
       ELSE DigitsLeq(Tail(a), Tail(b))

\* str::parse::<uN>: an optional "+", then one or more digits, no overflow
ParseUnsigned(s, maxDigits) ==
  LET body == IF s # <<>> /\ Head(s) = "+" THEN Tail(s) ELSE s
      sig == StripZeros(body)
  IN IF body = <<>> \/ ~AllDigits(body) THEN None
     ELSE IF Len(sig) > Len(maxDigits) THEN None
     ELSE IF Len(sig) = Len(maxDigits) /\ ~DigitsLeq(sig, maxDigits) THEN None
     ELSE Some(DigitsValue(sig, 0))

ParseU32(s) == ParseUnsigned(s, U32MaxDigits)

\* f32 values are decimal fractions  (-1)^neg * n / 10^s, n without
\* trailing fractional zeros
RECURSIVE F32Norm(_, _, _)
F32Norm(neg, n, s) ==
  IF s > 0 /\ n % 10 = 0 THEN F32Norm(neg, n \div 10, s - 1)
  ELSE [neg |-> neg /\ n # 0, n |-> n, s |-> s]

F32(whole) == F32Norm(FALSE, whole, 0)

\* str::parse::<f32> on decimal notation: sign, digits, ".", digits, with at
\* least one digit (exponents, "inf" and "nan" do not occur in the alphabet
\* of the utilities' outputs used here)
ParseF32(s) ==
  LET neg == s # <<>> /\ Head(s) = "-"
      body == IF s # <<>> /\ Head(s) \in {"+", "-"} THEN Tail(s) ELSE s
      parts == Split(body, ".")
  IN IF Len(parts) > 2 THEN None
     ELSE LET ip == parts[1]
              fp == IF Len(parts) = 2 THEN parts[2] ELSE <<>>
          IN IF ip \o fp = <<>> \/ ~AllDigits(ip \o fp) THEN None
             ELSE Some(F32Norm(neg, DigitsValue(ip \o fp, 0), Len(fp)))

(***************************************************************************)
(* String constants of the source.                                         *)
(***************************************************************************)
\* "Test Driver"
StrTestDriver ==
  <<"T", "e", "s", "t", " ", "D", "r", "i", "v", "e", "r">>

\* "11.7"
Str11_7 ==
  <<"1", "1", ".", "7">>

\* "515.65.01"
Str515_65_01 ==
  <<"5", "1", "5", ".", "6", "5", ".", "0", "1">>

\* "8.6"
Str8_6 ==
  <<"8", ".", "6">>

\* "gpu-memory-total-size"
StrGpuMemoryTotalSize ==
  <<"g", "p", "u", "-", "m", "e", "m", "o", "r", "y", "-", "t", "o", "t",
  "a", "l", "-", "s", "i", "z", "e">>

\* "M1 Pro"
StrM1Pro ==
  <<"M", "1", " ", "P", "r", "o">>

\* "M1 Max"
StrM1Max ==
  <<"M", "1", " ", "M", "a", "x">>

\* "M1"
StrM1 ==
  <<"M", "1">>

\* "M2"
StrM2 ==
  <<"M", "2">>

\* "GPU Active"
StrGpuActive ==
  <<"G", "P", "U", " ", "A", "c", "t", "i", "v", "e">>

\* "GPU Power"
StrGpuPower ==
  <<"G", "P", "U", " ", "P", "o", "w", "e", "r">>

\* "GPU die temperature"
StrGpuDieTemperature ==
  <<"G", "P", "U", " ", "d", "i", "e", " ", "t", "e", "m", "p", "e", "r",
  "a", "t", "u", "r", "e">>

\* "release"
StrRelease ==
  <<"r", "e", "l", "e", "a", "s", "e">>

\* u32 to decimal text, as format!("{}", n) prints it
RECURSIVE FormatU32(_)
FormatU32(n) ==
  IF n < 10 THEN <<Digits[n + 1]>>
  ELSE Append(FormatU32(n \div 10), Digits[(n % 10) + 1])

\* str::split_whitespace().last()
LastWord(s) ==
  LET t == TrimEnd(s)
      starts == {i \in 1..Len(t) : \A j \in i..Len(t) : ~IsWs(t[j])}
  IN IF t = <<>> THEN None
     ELSE Some(SubSeq(t, CHOOSE i \in starts : \A j \in starts : i <= j, Len(t)))

(***************************************************************************)
(* What the external utilities can print (standard output of a run that    *)
(* exits with status 0).                                                   *)
(***************************************************************************)
\* the six queried fields of one GPU
SmiSixFields ==
  <<"4", "0", "9", "6", ",", " ", "1", "0", "2", "4", ",", " ", "3", "0",
  "7", "2", ",", " ", "4", "5", ",", " ", "1", "5", ".", "5", ",", " ", "3",
  "0", "\n">>

\* seven fields: an index, then the six queried fields
SmiSevenFields ==
  <<"0", ",", " ", "4", "0", "9", "6", ",", " ", "1", "0", "2", "4", ",",
  " ", "2", "8", "1", "6", ",", " ", "4", "5", ",", " ", "1", "5", ".", "5",
  ",", " ", "3", "0", "\n">>

\* seven fields, temperature not reported
SmiSevenNoTemp ==
  <<"0", ",", " ", "4", "0", "9", "6", ",", " ", "1", "0", "2", "4", ",",
  " ", "3", "0", "7", "2", ",", " ", "N", "/", "A", ",", " ", "1", "5", ".",
  "5", ",", " ", "3", "0", "\n">>

\* nvcc --version with its release line
NvccRelease ==
  <<"t", "o", "o", "l", "s", ",", " ", "r", "e", "l", "e", "a", "s", "e",
  " ", "1", "1", ".", "7", ",", " ", "V", "1", "1", ".", "7", "\n">>

\* nvcc --version without a release line
NvccNoRelease ==
  <<"n", "v", "c", "c", "\n">>

\* nvidia-smi --query-gpu=driver_version
DriverLine ==
  <<"5", "1", "5", ".", "6", "5", ".", "0", "1", "\n">>

\* compute_cap and memory.total as nvidia-smi prints them
PropsQueried ==
  <<"8", ".", "6", ",", " ", "8", "1", "9", "2", "\n">>

\* two integer fields
PropsTwoInts ==
  <<"8", ",", " ", "6", "\n">>

\* six integer fields
PropsSixInts ==
  <<"8", ",", " ", "6", ",", " ", "8", "1", "9", "2", ",", " ", "1", "0",
  "2", "4", ",", " ", "4", "9", "1", "5", "2", ",", " ", "3", "2", "\n">>

\* ioreg: M1 Pro with a memory size line
IoregM1Pro ==
  <<"\"", "g", "p", "u", "-", "m", "e", "m", "o", "r", "y", "-", "t", "o",
  "t", "a", "l", "-", "s", "i", "z", "e", "\"", " ", "=", " ", "8", "1", "9",
  "2", "\n", "\"", "d", "e", "v", "i", "c", "e", "-", "n", "a", "m", "e",
  "\"", " ", "=", " ", "\"", "A", "p", "p", "l", "e", " ", "M", "1", " ",
  "P", "r", "o", "\"", "\n">>

\* ioreg: M2 with 4096 MB
IoregM2 ==
  <<"\"", "g", "p", "u", "-", "m", "e", "m", "o", "r", "y", "-", "t", "o",
  "t", "a", "l", "-", "s", "i", "z", "e", "\"", " ", "=", " ", "4", "0", "9",
  "6", "\n", "\"", "m", "o", "d", "e", "l", "\"", " ", "=", " ", "\"", "M",
  "2", "\"", "\n">>

\* ioreg: M1 without a memory size line
IoregM1NoSize ==
  <<"\"", "m", "o", "d", "e", "l", "\"", " ", "=", " ", "\"", "M", "1", "\"",
  "\n">>

\* ioreg: an accelerator that is not Apple Silicon
IoregOther ==
  <<"\"", "m", "o", "d", "e", "l", "\"", " ", "=", " ", "\"", "A", "M", "D",
  "\"", "\n">>

\* powermetrics: the three metrics
PmFull ==
  <<"G", "P", "U", " ", "A", "c", "t", "i", "v", "e", ":", " ", "3", "0",
  "%", "\n", "G", "P", "U", " ", "P", "o", "w", "e", "r", ":", " ", "1", "5",
  "W", "\n", "G", "P", "U", " ", "d", "i", "e", " ", "t", "e", "m", "p", "e",
  "r", "a", "t", "u", "r", "e", ":", " ", "4", "5", "C", "\n">>

\* powermetrics: power only
PmPowerOnly ==
  <<"G", "P", "U", " ", "P", "o", "w", "e", "r", ":", " ", "1", "5", ".",
  "5", "W", "\n">>

\* a byte sequence that is not UTF-8, and what from_utf8_lossy makes of it
InvalidByte == "<ff>"
ReplacementChar == "<fffd>"
SmiNotUtf8 == <<InvalidByte, "\n">>

\* std::str::from_utf8
FromUtf8(bytes) ==
  IF \E i \in 1..Len(bytes) : bytes[i] = InvalidByte
  THEN Err("Failed to parse nvidia-smi output")
  ELSE Ok(bytes)

\* String::from_utf8_lossy
FromUtf8Lossy(bytes) ==
  [i \in 1..Len(bytes) |->
     IF bytes[i] = InvalidByte THEN ReplacementChar ELSE bytes[i]]

\* the result of Command::output(): the utility could not be started, it
\* exited with a failure status, or it exited with status 0 and printed text
SpawnError == [status |-> "spawn_error", stdout |-> <<>>]
ExitFailure == [status |-> "exit_failure", stdout |-> <<>>]
Outputs(texts) ==
  {SpawnError, ExitFailure} \cup {[status |-> "success", stdout |-> t] : t \in texts}

NvidiaSmiOutputs ==
  Outputs({<<>>, SmiSixFields, SmiSevenFields, SmiSevenNoTemp, SmiNotUtf8})
NvccOutputs == Outputs({NvccRelease, NvccNoRelease})
CudnnOutputs == Outputs({<<>>})
DriverOutputs == Outputs({DriverLine})
PropsOutputs == Outputs({<<>>, PropsQueried, PropsTwoInts, PropsSixInts})
IoregOutputs == Outputs({<<>>, IoregM1Pro, IoregM2, IoregM1NoSize, IoregOther})
PowermetricsOutputs == Outputs({<<>>, PmFull, PmPowerOnly})

(***************************************************************************)
(* gpu/mod.rs: GpuType, GpuInfo and the records the code writes out.       *)
(***************************************************************************)
GpuType == {"Apple", "Nvidia", "None"}

GpuInfo(gpu_type, cuda_version, driver_version, compute_capability, temperature_c, power_usage_w, utilization_percent, memory_total_mb, memory_used_mb, memory_free_mb) ==
  [gpu_type |-> gpu_type,
   cuda_version |-> cuda_version,
   driver_version |-> driver_version,
   compute_capability |-> compute_capability,
   temperature_c |-> temperature_c,
   power_usage_w |-> power_usage_w,
   utilization_percent |-> utilization_percent,
   memory_total_mb |-> memory_total_mb,
   memory_used_mb |-> memory_used_mb,
   memory_free_mb |-> memory_free_mb]

\* variant: the record of "no GPU" carries a memory size
NoGpuInfoWithMemory ==
  GpuInfo("None", None, None, None, None, None, None, 8192, None, None)

\* the record of "no GPU", written out twice in gpu::detect_gpu
NoGpuInfo ==
  GpuInfo("None", None, None, None, None, None, None, 0, None, None)

\* the test-mode record of nvidia::detect_gpu
NvidiaTestInfo ==
  GpuInfo("Nvidia", Some(Str11_7), Some(Str515_65_01), Some(Str8_6),
          Some(F32(65)), Some(F32(150)), Some(F32(80)),
          8192, Some(4096), Some(4096))

\* the test-mode record of apple::detect_gpu
AppleTestInfo ==
  GpuInfo("Apple", None, Some(StrTestDriver), None,
          Some(F32(45)), Some(F32(15)), Some(F32(30)),
          8192, Some(2048), Some(6144))

SimulatedError == "Simulated GPU error"

(***************************************************************************)
(* gpu/nvidia.rs: the parsing done by detect_gpu and its helpers.          *)
(***************************************************************************)
\* output_str.trim().split(',').map(|s| s.trim()).collect()
CsvValues(text) ==
  LET parts == Split(Trim(text), ",")
  IN [i \in 1..Len(parts) |-> Trim(parts[i])]

\* values[i] of the Rust vector (indices from 0)
At(values, i) == values[i + 1]

\* nvidia::detect_gpu from the output of nvidia-smi to the six numbers
ParseSmi(bytes) ==
  LET text == FromUtf8(bytes) IN
  IF IsErr(text) THEN text
  ELSE LET values == CsvValues(text.info) IN
    IF Len(values) < 7 THEN Err("Invalid nvidia-smi output format")
    ELSE LET memory_total == ParseU32(At(values, 1))
             memory_used == ParseU32(At(values, 2))
             memory_free == ParseU32(At(values, 3))
             temperature == ParseF32(At(values, 4))
             power == ParseF32(At(values, 5))
             utilization == ParseF32(At(values, 6))
         IN IF ~IsSome(memory_total) THEN Err("Failed to parse total memory")
            ELSE IF ~IsSome(memory_used) THEN Err("Failed to parse used memory")
            ELSE IF ~IsSome(memory_free) THEN Err("Failed to parse free memory")
            ELSE IF ~IsSome(temperature) THEN Err("Failed to parse temperature")
            ELSE IF ~IsSome(power) THEN Err("Failed to parse power usage")
            ELSE IF ~IsSome(utilization)
                 THEN Err("Failed to parse GPU utilization")
            ELSE Ok([memory_total |-> Unwrap(memory_total),
                     memory_used |-> Unwrap(memory_used),
                     memory_free |-> Unwrap(memory_free),
                     temperature |-> Unwrap(temperature),
                     power |-> Unwrap(power),
                     utilization |-> Unwrap(utilization)])

\* the Ok(GpuInfo { .. }) that ends nvidia::detect_gpu
NvidiaInfo(smi, cuda_version, driver_version, compute_capability) ==
  GpuInfo("Nvidia", cuda_version, driver_version, compute_capability,
          Some(smi.temperature), Some(smi.power), Some(smi.utilization),
          smi.memory_total, Some(smi.memory_used), Some(smi.memory_free))

\* get_cuda_info: the "cuda_version" entry made from the output of nvcc
ParseNvcc(out) ==
  IF out.status # "success" THEN None
  ELSE LET line == FindLine(FromUtf8Lossy(out.stdout), StrRelease)
       IN IF IsSome(line) THEN LastWord(Unwrap(line)) ELSE None

\* get_driver_version from the output of nvidia-smi
ParseDriver(out) ==
  IF out.status # "success" THEN None
  ELSE Some(Trim(FromUtf8Lossy(out.stdout)))

\* get_cuda_device_properties from the output of nvidia-smi: None, the
\* properties, or a panic where values[i] is read past the end of the vector
ParseProps(out) ==
  IF out.status # "success" THEN [tag |-> "None"]
  ELSE LET values == CsvValues(FromUtf8Lossy(out.stdout))
           n == Len(values)
           Field(i) == ParseU32(At(values, i))
           \* the first index whose field is missing or does not parse
           stops == {i \in 0..5 : i >= n \/ ~IsSome(Field(i))}
           first == CHOOSE i \in stops : \A j \in stops : i <= j
       IN IF n < 2 THEN [tag |-> "None"]
          ELSE IF stops = {}
               THEN [tag |-> "Some",
                     compute_capability_major |-> Unwrap(Field(0)),
                     compute_capability_minor |-> Unwrap(Field(1))]
          ELSE IF first >= n THEN [tag |-> "Panic"]
          ELSE [tag |-> "None"]

\* format!("{}.{}", major, minor) of the device properties
ComputeCapability(props) ==
  IF props.tag = "Some"
  THEN Some(FormatU32(props.compute_capability_major) \o <<".">>
            \o FormatU32(props.compute_capability_minor))
  ELSE None

\* the values the helpers return in test mode
TestProps ==
  [tag |-> "Some", compute_capability_major |-> 8, compute_capability_minor |-> 6]

(***************************************************************************)
(* gpu/apple.rs: parse_gpu_info and the parsing of get_gpu_metrics.        *)
(***************************************************************************)
\* line.split(sep).nth(1) of the first line containing key, trimmed
ValueAfter(text, key, sep) ==
  LET line == FindLine(text, key)
  IN IF ~IsSome(line) THEN None
     ELSE LET v == Nth(Split(Unwrap(line), sep), 1)
          IN IF IsSome(v) THEN Some(Trim(Unwrap(v))) ELSE None

\* Option::and_then(parse)
AndThenParseF32(v, unit) ==
  IF IsSome(v) THEN ParseF32(TrimEndMatches(Unwrap(v), unit)) ELSE None

\* variant: a size that does not parse is reported as 0
parse_gpu_info_no_default(output) ==
  LET size == ValueAfter(output, StrGpuMemoryTotalSize, "=")
      parsed == IF IsSome(size) THEN ParseU32(Unwrap(size)) ELSE None
      memory_mb == IF IsSome(parsed) THEN Unwrap(parsed)
                   ELSE IF IsSome(size) THEN 0 ELSE 8192
      found == \/ Contains(output, StrM1Pro)
               \/ Contains(output, StrM1Max)
               \/ Contains(output, StrM1)
               \/ Contains(output, StrM2)
  IN IF ~found THEN Err("No Apple Silicon GPU found")
     ELSE Ok(GpuInfo("Apple", None, None, None, None, None, None,
                     memory_mb, None, None))

parse_gpu_info(output) ==
  LET size == ValueAfter(output, StrGpuMemoryTotalSize, "=")
      parsed == IF IsSome(size) THEN ParseU32(Unwrap(size)) ELSE None
      memory_mb == IF IsSome(parsed) THEN Unwrap(parsed) ELSE 8192
      found == \/ Contains(output, StrM1Pro)
               \/ Contains(output, StrM1Max)
               \/ Contains(output, StrM1)
               \/ Contains(output, StrM2)
  IN IF ~found THEN Err("No Apple Silicon GPU found")
     ELSE Ok(GpuInfo("Apple", None, None, None, None, None, None,
                     memory_mb, None, None))

\* get_gpu_metrics: Err, or (utilization, power, temperature)
get_gpu_metrics(out) ==
  IF out.status = "spawn_error" THEN Err("Failed to execute powermetrics")
  ELSE IF out.status # "success" THEN Ok(<<None, None, None>>)
  ELSE LET text == FromUtf8Lossy(out.stdout)
       IN Ok(<<AndThenParseF32(ValueAfter(text, StrGpuActive, ":"), "%"),
               AndThenParseF32(ValueAfter(text, StrGpuPower, ":"), "W"),
               AndThenParseF32(ValueAfter(text, StrGpuDieTemperature, ":"), "C")>>)

\* apple::detect_gpu after ioreg: get_gpu_metrics()?, parse_gpu_info(..)?
\* (parsed is its result) and the record that is cached and returned
AppleInfo(parsed, pm) ==
  LET metrics == get_gpu_metrics(pm) IN
  IF IsErr(metrics) THEN metrics
  ELSE
    IF IsErr(parsed) THEN parsed
    ELSE Ok([parsed.info EXCEPT !.utilization_percent = metrics.info[1],
                                !.power_usage_w = metrics.info[2],
                                !.temperature_c = metrics.info[3]])

(***************************************************************************)
(* State.  The four statics keep their names.  task[c] is the detect_gpu   *)
(* call that caller c is running: its position, what it has computed so    *)
(* far, and a record of what it has done.                                  *)
(***************************************************************************)
VARIABLES
  TEST_MODE,          \* gpu/mod.rs: AtomicBool
  ERROR_SIMULATION,   \* gpu/mod.rs: AtomicBool
  TEST_GPU_TYPE,      \* gpu/mod.rs: Mutex<GpuType>
  CACHED_GPU_INFO,    \* gpu/apple.rs: Mutex<Option<GpuInfo>>
  task                \* the call each caller is running

vars == <<TEST_MODE, ERROR_SIMULATION, TEST_GPU_TYPE, CACHED_GPU_INFO, task>>

Pending == [tag |-> "Pending"]
Panicked == [tag |-> "Panic"]

\* a caller that is running no call
Idle ==
  [pc |-> "idle",
   entry |-> "none",      \* "gpu": gpu::detect_gpu, "cmd": commands::detect_gpu
   path |-> "none",       \* "test" or "real" branch of gpu::detect_gpu, "cmd"
   smi |-> None,          \* the six numbers parsed from nvidia-smi
   cuda_version |-> None,
   driver_version |-> None,
   parsed |-> None,       \* parse_gpu_info of what ioreg printed
   result |-> Pending,
   \* what the call saw and did
   cache0 |-> None,       \* CACHED_GPU_INFO when the call began
   changed |-> {},        \* the mode statics written with a new value
                          \* since the call began
   spawned |-> FALSE,     \* the call has started an external utility
   ioreg |-> "none",      \* how the call's ioreg ended: "spawn_error",
                          \* "exit_failure", "no_model" (no Apple Silicon
                          \* model in the output) or "model"
   probes |-> <<>>,       \* the backends' detect_gpu calls: begin and end
   wrote |-> FALSE,       \* the call has stored into CACHED_GPU_INFO
   nvidia_smi |-> "none", \* how the call's nvidia-smi query ended:
                          \* "spawn_error", "exit_failure" or "success"
   errors |-> <<>>,       \* the Err messages the backends have returned
   abandoned |-> "none",  \* the utility of an Apple probe whose future
                          \* timeout() dropped: "running", then "exited"
   last |-> None,         \* what the caller's previous call returned
   input |-> None,        \* the argument of a direct call of validate or
                          \* parse_gpu_info
   \* a call of get_hardware_info
   attempt |-> 0,         \* the loop variable of get_hardware_info
   last_error |-> None,
   tried |-> <<>>]        \* what each try_get_hardware_info returned

Init ==
  /\ TEST_MODE = FALSE
  /\ ERROR_SIMULATION = FALSE
  /\ TEST_GPU_TYPE = "None"
  /\ CACHED_GPU_INFO = None
  /\ task = [c \in Callers |-> Idle]

Running(c) == task[c].pc \notin {"idle", "done", "panicked"}

\* a call that begins now, with the state it begins in
Begin(entry) == [Idle EXCEPT !.entry = entry, !.cache0 = CACHED_GPU_INFO]

\* a setter gives the static "name" a new value: every call whose result
\* the caller has not yet taken notes it
Disturb(name, isNew) ==
  [c \in Callers |->
     IF isNew /\ task[c].pc # "idle"
     THEN [task[c] EXCEPT !.changed = @ \cup {name}] ELSE task[c]]

(***************************************************************************)
(* gpu/mod.rs: the setters of the mode state.                              *)
(***************************************************************************)
\* variant: switching test mode also puts the selector back to None
set_test_mode_resets_selector(enabled) ==
  /\ TEST_MODE' = enabled
  /\ TEST_GPU_TYPE' = "None"
  /\ task' = Disturb("TEST_MODE", TEST_MODE # enabled)
  /\ UNCHANGED <<ERROR_SIMULATION, CACHED_GPU_INFO>>

set_test_mode(enabled) ==
  /\ TEST_MODE' = enabled
  /\ task' = Disturb("TEST_MODE", TEST_MODE # enabled)
  /\ UNCHANGED <<ERROR_SIMULATION, TEST_GPU_TYPE, CACHED_GPU_INFO>>

set_test_gpu_type(gpu_type) ==
  /\ TEST_GPU_TYPE' = gpu_type
  /\ task' = Disturb("TEST_GPU_TYPE", TEST_GPU_TYPE # gpu_type)
  /\ UNCHANGED <<TEST_MODE, ERROR_SIMULATION, CACHED_GPU_INFO>>

simulate_error(enabled) ==
  /\ ERROR_SIMULATION' = enabled
  /\ task' = Disturb("ERROR_SIMULATION", ERROR_SIMULATION # enabled)
  /\ UNCHANGED <<TEST_MODE, TEST_GPU_TYPE, CACHED_GPU_INFO>>

(***************************************************************************)
(* How a backend's detect_gpu hands its result to its caller.              *)
(***************************************************************************)
Event(backend, what) == <<backend, what>>

\* the locals of a backend's detect_gpu are gone when its future is
DropLocals(t) ==
  [t EXCEPT !.smi = None, !.cuda_version = None, !.driver_version = None,
            !.parsed = None]

\* the call ends with result r
Return(t, r) == [DropLocals(t) EXCEPT !.pc = "done", !.result = r]

\* a backend's detect_gpu is called
CallBackend(t, backend) ==
  [t EXCEPT !.pc = IF backend = "Nvidia" THEN "n_err" ELSE "a_err",
            !.probes = Append(@, Event(backend, "begin"))]

\* real detection awaits each backend inside
\* timeout(Duration::from_secs(5), ..); test mode and the command await the
\* backend itself
Timed(t) == t.path = "real"

\* variant: the Nvidia backend is tried again
AfterNvidiaRetries(t) == CallBackend(t, "Nvidia")

\* variant: no backend left is an error
AfterAppleFails(t) == Return(t, Err("No GPU detected"))

\* real detection after the Nvidia attempt did not give Ok(Ok(info))
AfterNvidia(t) == CallBackend(t, "Apple")

\* real detection after the Apple attempt did not give Ok(Ok(info))
AfterApple(t) == Return(t, Ok(NoGpuInfo))

\* the backend's detect_gpu returns r
BackendReturns(t, backend, r) ==
  LET u == [DropLocals(t) EXCEPT
              !.probes = Append(@, Event(backend, IF IsOk(r) THEN "ok" ELSE "err")),
              !.errors = IF IsErr(r) THEN Append(@, r.msg) ELSE @]
  IN IF ~Timed(t) \/ IsOk(r) THEN Return(u, r)
     ELSE IF backend = "Nvidia" THEN AfterNvidia(u)
     ELSE AfterApple(u)

\* timeout() gives Err(Elapsed): the backend's future is dropped, and
\* with it the wait for the utility it had started; the utility itself
\* runs on (followed here for ioreg and powermetrics)
BackendElapsed(t, backend) ==
  LET u == [DropLocals(t) EXCEPT
              !.probes = Append(@, Event(backend, "elapsed")),
              !.abandoned = IF t.pc \in {"a_ioreg", "a_powermetrics"}
                            THEN "running" ELSE @]
  IN IF backend = "Nvidia" THEN AfterNvidia(u) ELSE AfterApple(u)

\* Command::new(tool)...output() starts a utility
Spawn(t, tool, pc) == [t EXCEPT !.pc = pc, !.spawned = TRUE]

\* caller c moves on to t; nothing shared changes
Moves(c, t) ==
  /\ task' = [task EXCEPT ![c] = t]
  /\ UNCHANGED <<TEST_MODE, ERROR_SIMULATION, TEST_GPU_TYPE, CACHED_GPU_INFO>>

\* caller c begins a call whose first step takes it to t
Begins(c, t) ==
  /\ task[c].pc = "idle"
  /\ Moves(c, t)

At_(c, pc) == task[c].pc = pc

(***************************************************************************)
(* gpu/mod.rs: detect_gpu, statement by statement.                         *)
(***************************************************************************)
\* variant: test mode is looked at before error simulation
GpuCheckErrorAfterTestMode(t) ==
  IF TEST_MODE THEN [t EXCEPT !.pc = "g_type", !.path = "test"]
  ELSE IF ERROR_SIMULATION THEN Return(t, Err(SimulatedError))
  ELSE [t EXCEPT !.pc = "g_test"]

\* if is_error_simulation() { return Err(..) }
GpuCheckError(t) ==
  IF ERROR_SIMULATION THEN Return(t, Err(SimulatedError))
  ELSE [t EXCEPT !.pc = "g_test"]

\* if is_test_mode() { .. } else { match timeout(.., nvidia::detect_gpu()) }
GpuCheckTestMode(t) ==
  IF TEST_MODE THEN [t EXCEPT !.pc = "g_type", !.path = "test"]
  ELSE CallBackend([t EXCEPT !.path = "real"], "Nvidia")

\* variant: the arms of the match call the other backend
GpuMatchGpuTypeSwapped(t) ==
  IF TEST_GPU_TYPE = "None" THEN Return(t, Ok(NoGpuInfo))
  ELSE CallBackend(t, IF TEST_GPU_TYPE = "Nvidia" THEN "Apple" ELSE "Nvidia")

\* variant: the None arm asks the Nvidia backend
GpuMatchGpuTypeProbesNvidia(t) ==
  CallBackend(t, IF TEST_GPU_TYPE = "None" THEN "Nvidia" ELSE TEST_GPU_TYPE)

\* variant: the None arm gives the Apple fixture
GpuMatchGpuTypeDefaultsToApple(t) ==
  CallBackend(t, IF TEST_GPU_TYPE = "None" THEN "Apple" ELSE TEST_GPU_TYPE)

\* match get_test_gpu_type() { Nvidia => .., Apple => .., None => Ok(..) }
GpuMatchGpuType(t) ==
  IF TEST_GPU_TYPE = "None" THEN Return(t, Ok(NoGpuInfo))
  ELSE CallBackend(t, TEST_GPU_TYPE)

gpu_detect_gpu(c) == Begins(c, GpuCheckError(Begin("gpu")))

gpu_check_test_mode(c) ==
  /\ At_(c, "g_test")
  /\ Moves(c, GpuCheckTestMode(task[c]))

gpu_match_gpu_type(c) ==
  /\ At_(c, "g_type")
  /\ Moves(c, GpuMatchGpuType(task[c]))

\* Err(Elapsed) of the timeout around a backend: taken while the backend
\* waits for a utility
Waiting == {"n_smi", "n_nvcc", "n_cudnn", "n_drv_wait", "n_props_wait",
            "a_ioreg", "a_powermetrics"}
BackendAt(pc) == IF pc \in {"a_ioreg", "a_powermetrics"} THEN "Apple" ELSE "Nvidia"

gpu_timeout_elapsed(c) ==
  /\ task[c].pc \in Waiting
  /\ Timed(task[c])
  /\ Moves(c, BackendElapsed(task[c], BackendAt(task[c].pc)))

(***************************************************************************)
(* gpu/nvidia.rs: detect_gpu and its helpers.                              *)
(***************************************************************************)
NvidiaCheckError(t) ==
  IF ERROR_SIMULATION THEN BackendReturns(t, "Nvidia", Err(SimulatedError))
  ELSE [t EXCEPT !.pc = "n_test"]

\* is_test_mode() && ..: the selector is read only when test mode is on
NvidiaCheckTestMode(t) ==
  IF TEST_MODE THEN [t EXCEPT !.pc = "n_type"]
  ELSE Spawn(t, "nvidia-smi", "n_smi")

\* .. && matches!(get_test_gpu_type(), GpuType::Nvidia)
NvidiaCheckGpuType(t) ==
  IF TEST_GPU_TYPE = "Nvidia" THEN BackendReturns(t, "Nvidia", Ok(NvidiaTestInfo))
  ELSE Spawn(t, "nvidia-smi", "n_smi")

\* variant: the exit status of nvidia-smi is not looked at
NvidiaSmiExitsIgnoresStatus(t, out) ==
  LET u == [t EXCEPT !.nvidia_smi = out.status]
      parsed == ParseSmi(out.stdout)
  IN IF IsErr(parsed) THEN BackendReturns(u, "Nvidia", parsed)
     ELSE [u EXCEPT !.smi = Some(parsed.info), !.pc = "n_cuda"]

\* nvidia-smi has ended with out: the errors of detect_gpu, or on to
\* get_cuda_info with the six numbers
NvidiaSmiExits(t, out) ==
  LET u == [t EXCEPT !.nvidia_smi = out.status] IN
  IF out.status # "success"
  THEN BackendReturns(u, "Nvidia", Err("NVIDIA GPU not found"))
  ELSE LET parsed == ParseSmi(out.stdout)
       IN IF IsErr(parsed) THEN BackendReturns(u, "Nvidia", parsed)
          ELSE [u EXCEPT !.smi = Some(parsed.info), !.pc = "n_cuda"]

\* the timeout() around nvidia-smi inside detect_gpu
NvidiaSmiElapsed(t) ==
  BackendReturns(t, "Nvidia", Err("NVIDIA GPU detection timed out"))

nvidia_check_error(c) ==
  /\ At_(c, "n_err")
  /\ Moves(c, NvidiaCheckError(task[c]))

nvidia_check_test_mode(c) ==
  /\ At_(c, "n_test")
  /\ Moves(c, NvidiaCheckTestMode(task[c]))

nvidia_check_gpu_type(c) ==
  /\ At_(c, "n_type")
  /\ Moves(c, NvidiaCheckGpuType(task[c]))

nvidia_smi_exits(c) ==
  /\ At_(c, "n_smi")
  /\ \E out \in NvidiaSmiOutputs : Moves(c, NvidiaSmiExits(task[c], out))

nvidia_smi_elapsed(c) ==
  /\ At_(c, "n_smi")
  /\ Moves(c, NvidiaSmiElapsed(task[c]))

\* get_cuda_info: the test-mode map, or nvcc --version
GetCudaInfo(t) ==
  IF TEST_MODE THEN [t EXCEPT !.cuda_version = Some(Str11_7), !.pc = "n_drv"]
  ELSE Spawn(t, "nvcc", "n_nvcc")

\* nvcc has ended: no map, or the version and then sh -c "ldconfig .."
NvccExits(t, out) ==
  IF out.status # "success" THEN [t EXCEPT !.pc = "n_drv"]
  ELSE Spawn([t EXCEPT !.cuda_version = ParseNvcc(out)], "sh", "n_cudnn")

NvccElapsed(t) == [t EXCEPT !.pc = "n_drv"]

\* the cuDNN version is put into the map and read nowhere
CudnnExits(t, out) == [t EXCEPT !.pc = "n_drv"]

\* get_driver_version
GetDriverVersion(t) ==
  IF TEST_MODE
  THEN [t EXCEPT !.driver_version = Some(Str515_65_01), !.pc = "n_props"]
  ELSE Spawn(t, "nvidia-smi", "n_drv_wait")

DriverExits(t, out) ==
  [t EXCEPT !.driver_version = ParseDriver(out), !.pc = "n_props"]

DriverElapsed(t) == [t EXCEPT !.pc = "n_props"]

\* the end of nvidia::detect_gpu, with the device properties props
NvidiaFinish(t, props) ==
  IF props.tag = "Panic"
  THEN [DropLocals(t) EXCEPT !.pc = "panicked", !.result = Panicked]
  ELSE BackendReturns(t, "Nvidia",
         Ok(NvidiaInfo(Unwrap(t.smi), t.cuda_version, t.driver_version,
                       ComputeCapability(props))))

\* get_cuda_device_properties
GetCudaDeviceProperties(t) ==
  IF TEST_MODE THEN NvidiaFinish(t, TestProps)
  ELSE Spawn(t, "nvidia-smi", "n_props_wait")

PropsExits(t, out) == NvidiaFinish(t, ParseProps(out))

PropsElapsed(t) == NvidiaFinish(t, [tag |-> "None"])

get_cuda_info(c) ==
  /\ At_(c, "n_cuda")
  /\ Moves(c, GetCudaInfo(task[c]))

nvcc_exits(c) ==
  /\ At_(c, "n_nvcc")
  /\ \E out \in NvccOutputs : Moves(c, NvccExits(task[c], out))

nvcc_elapsed(c) ==
  /\ At_(c, "n_nvcc")
  /\ Moves(c, NvccElapsed(task[c]))

cudnn_exits(c) ==
  /\ At_(c, "n_cudnn")
  /\ \E out \in CudnnOutputs : Moves(c, CudnnExits(task[c], out))

get_driver_version(c) ==
  /\ At_(c, "n_drv")
  /\ Moves(c, GetDriverVersion(task[c]))

driver_exits(c) ==
  /\ At_(c, "n_drv_wait")
  /\ \E out \in DriverOutputs : Moves(c, DriverExits(task[c], out))

driver_elapsed(c) ==
  /\ At_(c, "n_drv_wait")
  /\ Moves(c, DriverElapsed(task[c]))

get_cuda_device_properties(c) ==
  /\ At_(c, "n_props")
  /\ Moves(c, GetCudaDeviceProperties(task[c]))

props_exits(c) ==
  /\ At_(c, "n_props_wait")
  /\ \E out \in PropsOutputs : Moves(c, PropsExits(task[c], out))

props_elapsed(c) ==
  /\ At_(c, "n_props_wait")
  /\ Moves(c, PropsElapsed(task[c]))

(***************************************************************************)
(* gpu/apple.rs: detect_gpu.                                               *)
(***************************************************************************)
AppleCheckError(t) ==
  IF ERROR_SIMULATION THEN BackendReturns(t, "Apple", Err(SimulatedError))
  ELSE [t EXCEPT !.pc = "a_test"]

\* variant: test mode gives the other backend's record
AppleCheckTestModeWrongFixture(t) ==
  IF TEST_MODE THEN BackendReturns(t, "Apple", Ok(NvidiaTestInfo))
  ELSE [t EXCEPT !.pc = "a_cache"]

\* variant: test mode is not looked at
AppleCheckTestModeIgnored(t) == [t EXCEPT !.pc = "a_cache"]

AppleCheckTestMode(t) ==
  IF TEST_MODE THEN BackendReturns(t, "Apple", Ok(AppleTestInfo))
  ELSE [t EXCEPT !.pc = "a_cache"]

\* variant: the cache is not looked at
AppleCheckCacheMisses(t) == Spawn(t, "ioreg", "a_ioreg")

\* if let Some(cached_info) = CACHED_GPU_INFO.lock().unwrap().as_ref()
AppleCheckCache(t) ==
  IF IsSome(CACHED_GPU_INFO)
  THEN BackendReturns(t, "Apple", Ok(Unwrap(CACHED_GPU_INFO)))
  ELSE Spawn(t, "ioreg", "a_ioreg")

\* ioreg has ended: the two errors, or on to get_gpu_metrics.  The call
\* keeps parse_gpu_info(output_str), which detect_gpu computes from
\* output_str after the metrics
IoregExits(t, out) ==
  IF out.status = "spawn_error"
  THEN BackendReturns([t EXCEPT !.ioreg = out.status], "Apple",
                      Err("Failed to execute ioreg"))
  ELSE IF out.status # "success"
  THEN BackendReturns([t EXCEPT !.ioreg = out.status], "Apple",
                      Err("ioreg command failed"))
  ELSE LET parsed == parse_gpu_info(FromUtf8Lossy(out.stdout)) IN
       Spawn([t EXCEPT !.parsed = Some(parsed),
                       !.ioreg = IF IsOk(parsed) THEN "model" ELSE "no_model"],
             "powermetrics", "a_powermetrics")

\* variant: a failed detection is stored as the no-accelerator record
AppleStoresAlways(r) == IF IsOk(r) THEN Some(r.info) ELSE Some(NoGpuInfo)

\* variant: test mode is looked at again when the record is stored
AppleStoresFixtureInTestMode(r) ==
  IF IsOk(r) THEN Some(IF TEST_MODE THEN AppleTestInfo ELSE r.info)
  ELSE CACHED_GPU_INFO

\* variant: a failed detection empties the cache
AppleStoresOrClears(r) == IF IsOk(r) THEN Some(r.info) ELSE None

\* what detect_gpu stores into CACHED_GPU_INFO once powermetrics has ended
AppleStores(r) == IF IsOk(r) THEN Some(r.info) ELSE CACHED_GPU_INFO

apple_check_error(c) ==
  /\ At_(c, "a_err")
  /\ Moves(c, AppleCheckError(task[c]))

apple_check_test_mode(c) ==
  /\ At_(c, "a_test")
  /\ Moves(c, AppleCheckTestMode(task[c]))

apple_check_cache(c) ==
  /\ At_(c, "a_cache")
  /\ Moves(c, AppleCheckCache(task[c]))

ioreg_exits(c) ==
  /\ At_(c, "a_ioreg")
  /\ \E out \in IoregOutputs : Moves(c, IoregExits(task[c], out))

\* powermetrics has ended: get_gpu_metrics, parse_gpu_info, the store into
\* the cache and the return
powermetrics_exits(c) ==
  /\ At_(c, "a_powermetrics")
  /\ \E out \in PowermetricsOutputs :
       LET r == AppleInfo(Unwrap(task[c].parsed), out) IN
       /\ CACHED_GPU_INFO' = AppleStores(r)
       /\ task' = [task EXCEPT ![c] =
            BackendReturns([task[c] EXCEPT !.wrote = IsOk(r)], "Apple", r)]
  /\ UNCHANGED <<TEST_MODE, ERROR_SIMULATION, TEST_GPU_TYPE>>

\* the utility of a dropped Apple probe ends with success: the future
\* that would have read its output, built the record and stored it is
\* gone, so nothing of the program changes
abandoned_exits(c) ==
  /\ task[c].abandoned = "running"
  /\ Moves(c, [task[c] EXCEPT !.abandoned = "exited"])

(***************************************************************************)
(* commands.rs: detect_gpu awaits gpu::apple::detect_gpu().                *)
(***************************************************************************)
CommandsDetectGpu(t) == CallBackend([t EXCEPT !.path = "cmd"], "Apple")

commands_detect_gpu(c) ==
  Begins(c, AppleCheckError(CommandsDetectGpu(Begin("cmd"))))

\* the caller has its answer (or its task has died) and may call again
forget(c) ==
  /\ task[c].pc \in {"done", "panicked"}
  /\ Moves(c, Idle)

(***************************************************************************)
(* The specifications.                                                     *)
(***************************************************************************)
\* the steps a running call takes by itself: the code between two awaits,
\* and the expiry of a timeout it waits under
Proceeds(c) ==
  \/ gpu_check_test_mode(c)
  \/ gpu_match_gpu_type(c)
  \/ gpu_timeout_elapsed(c)
  \/ nvidia_check_error(c)
  \/ nvidia_check_test_mode(c)
  \/ nvidia_check_gpu_type(c)
  \/ nvidia_smi_elapsed(c)
  \/ get_cuda_info(c)
  \/ nvcc_elapsed(c)
  \/ get_driver_version(c)
  \/ driver_elapsed(c)
  \/ get_cuda_device_properties(c)
  \/ props_elapsed(c)
  \/ apple_check_error(c)
  \/ apple_check_test_mode(c)
  \/ apple_check_cache(c)

\* the end of an external utility, which may never come
Exits(c) ==
  \/ nvidia_smi_exits(c)
  \/ nvcc_exits(c)
  \/ cudnn_exits(c)
  \/ driver_exits(c)
  \/ props_exits(c)
  \/ ioreg_exits(c)
  \/ powermetrics_exits(c)
  \/ abandoned_exits(c)

\* the setters run at any moment, between any two steps of a call
Next ==
  \/ \E enabled \in BOOLEAN : set_test_mode(enabled)
  \/ \E gpu_type \in GpuType : set_test_gpu_type(gpu_type)
  \/ \E enabled \in BOOLEAN : simulate_error(enabled)
  \/ \E c \in Callers : gpu_detect_gpu(c)
  \/ \E c \in Callers : commands_detect_gpu(c)
  \/ \E c \in Callers : Proceeds(c)
  \/ \E c \in Callers : Exits(c)
  \/ \E c \in Callers : forget(c)

Spec == Init /\ [][Next]_vars

\* the runtime keeps polling a task that can proceed, and its timers fire
FairSpec == Spec /\ \A c \in Callers : WF_vars(Proceeds(c))

\* and on a host whose utilities all end
EndingSpec == FairSpec /\ \A c \in Callers : WF_vars(Exits(c))

(***************************************************************************)
(* Call after call in real mode: nobody touches the mode state, and the    *)
(* caller keeps what a call returned to compare it with the next call's    *)
(* answer, as test_apple_gpu_cache and test_gpu_detection do.              *)
(***************************************************************************)
\* what the caller keeps of a finished call of gpu::detect_gpu
Outcome(t) ==
  IF t.pc = "done" /\ t.entry = "gpu" /\ IsOk(t.result)
  THEN Some([gpu_type |-> t.result.info.gpu_type,
             memory_total_mb |-> t.result.info.memory_total_mb,
             probes |-> t.probes])
  ELSE None

remember(c) ==
  /\ task[c].pc \in {"done", "panicked"}
  /\ Moves(c, [Idle EXCEPT !.last = Outcome(task[c])])

gpu_detect_gpu_again(c) ==
  Begins(c, [GpuCheckError(Begin("gpu")) EXCEPT !.last = task[c].last])

\* the steps of Proceeds that real mode takes
RealProceeds(c) ==
  \/ gpu_check_test_mode(c)
  \/ gpu_timeout_elapsed(c)
  \/ nvidia_check_error(c)
  \/ nvidia_check_test_mode(c)
  \/ nvidia_smi_elapsed(c)
  \/ get_cuda_info(c)
  \/ nvcc_elapsed(c)
  \/ get_driver_version(c)
  \/ driver_elapsed(c)
  \/ get_cuda_device_properties(c)
  \/ props_elapsed(c)
  \/ apple_check_error(c)
  \/ apple_check_test_mode(c)
  \/ apple_check_cache(c)

RepeatNext ==
  \/ \E c \in Callers : gpu_detect_gpu_again(c)
  \/ \E c \in Callers : RealProceeds(c)
  \/ \E c \in Callers : Exits(c)
  \/ \E c \in Callers : remember(c)

RepeatSpec == Init /\ [][RepeatNext]_vars

(***************************************************************************)
(* Two callers of commands::detect_gpu in real mode at the same time: the  *)
(* steps of apple::detect_gpu, which reads and writes the cache.           *)
(***************************************************************************)
Pair == {"t1", "t2"}

PairInit ==
  /\ TEST_MODE = FALSE
  /\ ERROR_SIMULATION = FALSE
  /\ TEST_GPU_TYPE = "None"
  /\ CACHED_GPU_INFO = None
  /\ task = [c \in Pair |-> Idle]

PairNext ==
  \/ \E c \in Pair : commands_detect_gpu(c)
  \/ \E c \in Pair : apple_check_test_mode(c)
  \/ \E c \in Pair : apple_check_cache(c)
  \/ \E c \in Pair : ioreg_exits(c)
  \/ \E c \in Pair : powermetrics_exits(c)
  \/ \E c \in Pair : forget(c)

PairSpec == PairInit /\ [][PairNext]_vars

(***************************************************************************)
(* hardware.rs (and its copy in lib.rs): get_hardware_info.  What sysinfo  *)
(* reports is a record sys: the brand of each CPU, total and used memory.  *)
(***************************************************************************)
\* System::new_all() after refresh_all(): the readings of one attempt (no
\* CPU, one with a blank brand, one "Intel", two " M1 ")
Systems ==
  [cpus : {<<>>, << <<" ", " ">> >>, << <<"I", "n", "t", "e", "l">> >>,
           << <<" ", "M", "1", " ">>, <<" ", "M", "1", " ">> >>},
   total_memory : {0, 16},
   used_memory : {0, 8, 32}]

HardwareError(kind, msg) == [tag |-> "Err", kind |-> kind, msg |-> msg]

HardwareInfo(cpu_count, cpu_brand, memory_total, memory_used) ==
  [cpu_count |-> cpu_count, cpu_brand |-> cpu_brand,
   memory_total |-> memory_total, memory_used |-> memory_used,
   platform |-> "linux"]

\* variant: used memory is not compared with total memory
validate_without_usage(info) ==
  IF info.cpu_count = 0
  THEN HardwareError("CpuError", "Invalid CPU count")
  ELSE IF Trim(info.cpu_brand) = <<>>
  THEN HardwareError("CpuError", "Invalid CPU brand information")
  ELSE IF info.memory_total = 0
  THEN HardwareError("MemoryError", "Invalid total memory value")
  ELSE Ok(<<>>)

\* variant: the memory is checked before the CPU
validate_memory_first(info) ==
  IF info.memory_total = 0
  THEN HardwareError("MemoryError", "Invalid total memory value")
  ELSE IF info.memory_used > info.memory_total
  THEN HardwareError("MemoryError", "Used memory exceeds total memory")
  ELSE IF info.cpu_count = 0
  THEN HardwareError("CpuError", "Invalid CPU count")
  ELSE IF Trim(info.cpu_brand) = <<>>
  THEN HardwareError("CpuError", "Invalid CPU brand information")
  ELSE Ok(<<>>)

\* HardwareInfo::validate
validate(info) ==
  IF info.cpu_count = 0
  THEN HardwareError("CpuError", "Invalid CPU count")
  ELSE IF Trim(info.cpu_brand) = <<>>
  THEN HardwareError("CpuError", "Invalid CPU brand information")
  ELSE IF info.memory_total = 0
  THEN HardwareError("MemoryError", "Invalid total memory value")
  ELSE IF info.memory_used > info.memory_total
  THEN HardwareError("MemoryError", "Used memory exceeds total memory")
  ELSE Ok(<<>>)

try_get_hardware_info(sys) ==
  IF Len(sys.cpus) = 0
  THEN HardwareError("CpuError", "No CPU cores detected")
  ELSE IF Trim(sys.cpus[1]) = <<>>
  THEN HardwareError("CpuError", "Failed to retrieve CPU information")
  ELSE IF sys.total_memory = 0
  THEN HardwareError("MemoryError", "Failed to detect system memory")
  ELSE LET info == HardwareInfo(Len(sys.cpus), Trim(sys.cpus[1]),
                                sys.total_memory, sys.used_memory)
       IN IF IsErr(validate(info)) THEN validate(info) ELSE Ok(info)

MAX_RETRIES == 3

\* variant: last_error is forgotten and the generic error returned
AttemptFailedGeneric(t, e) ==
  IF t.attempt = MAX_RETRIES
  THEN Return(t, HardwareError("SystemError",
                   "Failed to retrieve hardware information after multiple attempts"))
  ELSE [t EXCEPT !.last_error = Some(e), !.pc = "h_sleep"]

\* variant: the first failed attempt is the last
AttemptFailedGivesUp(t, e) ==
  Return([t EXCEPT !.last_error = Some(e)], e)

\* an attempt gave the error e: last_error = Some(e), then break after the
\* last attempt and Err(last_error..), or sleep and go round again
AttemptFailed(t, e) ==
  LET u == [t EXCEPT !.last_error = Some(e)] IN
  IF t.attempt = MAX_RETRIES
  THEN Return(u, IF IsSome(u.last_error) THEN Unwrap(u.last_error)
                 ELSE HardwareError("SystemError",
                        "Failed to retrieve hardware information after multiple attempts"))
  ELSE [u EXCEPT !.pc = "h_sleep"]

\* the body of the loop with r the result of try_get_hardware_info()
Attempt(t, r) ==
  LET u == [t EXCEPT !.tried = Append(@, r)] IN
  IF IsErr(r) THEN AttemptFailed(u, r)
  ELSE IF IsErr(validate(r.info)) THEN AttemptFailed(u, validate(r.info))
  ELSE Return(u, r)

\* commands::get_hardware_info calls hardware::get_hardware_info
commands_get_hardware_info(c) ==
  Begins(c, [Begin("hardware") EXCEPT !.pc = "h_try", !.attempt = 1])

hardware_attempt(c) ==
  /\ At_(c, "h_try")
  /\ \E sys \in Systems : Moves(c, Attempt(task[c], try_get_hardware_info(sys)))

\* thread::sleep(RETRY_DELAY_MS) is over: the next round of the loop
hardware_sleep_ends(c) ==
  /\ At_(c, "h_sleep")
  /\ Moves(c, [task[c] EXCEPT !.pc = "h_try", !.attempt = @ + 1])

HardwareNext ==
  \/ \E c \in Callers : commands_get_hardware_info(c)
  \/ \E c \in Callers : hardware_attempt(c)
  \/ \E c \in Callers : hardware_sleep_ends(c)
  \/ \E c \in Callers : forget(c)

HardwareSpec == Init /\ [][HardwareNext]_vars

\* sysinfo answers and a sleep ends
HardwareFairSpec ==
  HardwareSpec
    /\ \A c \in Callers : WF_vars(hardware_attempt(c) \/ hardware_sleep_ends(c))

(***************************************************************************)
(* Direct calls of HardwareInfo::validate and of parse_gpu_info, as the    *)
(* tests test_hardware_info_validation and test_parse_gpu_info make them.  *)
(***************************************************************************)
\* the records validate is called on
HardwareInfos ==
  {HardwareInfo(cpu_count, cpu_brand, memory_total, memory_used) :
     cpu_count \in {0, 1, 2},
     cpu_brand \in {<<>>, <<" ", " ">>, <<"I", "n", "t", "e", "l">>,
                    <<" ", "M", "1", " ">>},
     memory_total \in {0, 8, 16},
     memory_used \in {0, 8, 32}}

\* the texts parse_gpu_info is called on: what ioreg can print, the empty
\* text, and
IoregTexts ==
  {FromUtf8Lossy(o.stdout) : o \in {q \in IoregOutputs : q.status = "success"}}
  \cup {<<>>,
     \* M1 Max, a size that is no number
     <<"\"", "g", "p", "u", "-", "m", "e", "m", "o", "r", "y", "-", "t",
       "o", "t", "a", "l", "-", "s", "i", "z", "e", "\"", " ", "=", " ",
       "8", "G", "B", "\n", "A", "p", "p", "l", "e", " ", "M", "1", " ",
       "M", "a", "x", "\n">>,
     \* M2, a size beyond u32
     <<"\"", "g", "p", "u", "-", "m", "e", "m", "o", "r", "y", "-", "t",
       "o", "t", "a", "l", "-", "s", "i", "z", "e", "\"", " ", "=", " ",
       "4", "2", "9", "4", "9", "6", "7", "2", "9", "6", "\n", "M", "2",
       "\n">>,
     \* M1, two size lines
     <<"\"", "g", "p", "u", "-", "m", "e", "m", "o", "r", "y", "-", "t",
       "o", "t", "a", "l", "-", "s", "i", "z", "e", "\"", " ", "=", " ",
       "2", "0", "4", "8", "\n", "\"", "g", "p", "u", "-", "m", "e", "m",
       "o", "r", "y", "-", "t", "o", "t", "a", "l", "-", "s", "i", "z",
       "e", "\"", " ", "=", " ", "4", "0", "9", "6", "\n", "M", "1", "\n">>,
     \* M1, a size line without =
     <<"g", "p", "u", "-", "m", "e", "m", "o", "r", "y", "-", "t", "o",
       "t", "a", "l", "-", "s", "i", "z", "e", " ", "4", "0", "9", "6",
       "\n", "M", "1", "\n">>,
     \* a size line and no model
     <<"\"", "g", "p", "u", "-", "m", "e", "m", "o", "r", "y", "-", "t",
       "o", "t", "a", "l", "-", "s", "i", "z", "e", "\"", " ", "=", " ",
       "4", "0", "9", "6", "\n">>}

hardware_info_validate(c) ==
  \E info \in HardwareInfos :
    Begins(c, Return([Begin("validate") EXCEPT !.input = Some(info)],
                     validate(info)))

apple_parse_gpu_info(c) ==
  \E output \in IoregTexts :
    Begins(c, Return([Begin("parse") EXCEPT !.input = Some(output)],
                     parse_gpu_info(output)))

UnitNext ==
  \/ \E c \in Callers : hardware_info_validate(c)
  \/ \E c \in Callers : apple_parse_gpu_info(c)
  \/ \E c \in Callers : forget(c)

UnitSpec == Init /\ [][UnitNext]_vars

(***************************************************************************)
(* Properties of detect_gpu.                                               *)
(***************************************************************************)
Gpu(c) == task[c].entry = "gpu"
Done(c) == task[c].pc = "done"

\* no setter has given a mode static a new value since the call began
Steady(c) == task[c].changed = {}

\* error simulation has been off ever since the call began
NoSimulation(c) ==
  ~ERROR_SIMULATION /\ "ERROR_SIMULATION" \notin task[c].changed

\* the positions of a call inside apple::detect_gpu
ApplePcs == {"a_err", "a_test", "a_cache", "a_ioreg", "a_powermetrics"}

Ends == {"ok", "err", "elapsed"}
Failed(t, backend) ==
  \E i \in 1..Len(t.probes) :
    t.probes[i][1] = backend /\ t.probes[i][2] \in {"err", "elapsed"}
Succeeded(t) ==
  \E i \in 1..Len(t.probes) : t.probes[i][2] = "ok"

\* C1: a call of gpu::detect_gpu made while error simulation is on ends at
\* once with Err("Simulated GPU error"), whatever test mode, the selector
\* and the cache hold, and has started no probe and no utility; switching
\* error simulation on or off changes neither test mode, the selector nor
\* the cache.
ErrorSimulationWins ==
  /\ [][\A c \in Callers :
          (task[c].pc = "idle" /\ task'[c].entry = "gpu" /\ ERROR_SIMULATION)
          => /\ task'[c].pc = "done"
             /\ task'[c].result = Err(SimulatedError)
             /\ task'[c].probes = <<>>
             /\ ~task'[c].spawned]_vars
  /\ [][ERROR_SIMULATION' # ERROR_SIMULATION
          => UNCHANGED <<TEST_MODE, TEST_GPU_TYPE, CACHED_GPU_INFO>>]_vars

\* C1 happens: the simulated failure has been returned with test mode on,
\* a fixture selected and the cache populated
SimulatedErrorReturned ==
  \E c \in Callers :
    /\ Gpu(c) /\ Done(c) /\ Steady(c)
    /\ ERROR_SIMULATION /\ TEST_MODE /\ TEST_GPU_TYPE = "Apple"
    /\ IsSome(CACHED_GPU_INFO)
    /\ task[c].result = Err(SimulatedError)

\* C2: with test mode on, error simulation off and the selector naming
\* backend B (Nvidia or Apple), none of them changed during the call,
\* gpu::detect_gpu returns exactly B's fixture record, hence the same record
\* on every such call, and starts no external process.
TestModeReturnsFixture ==
  \A c \in Callers :
    (/\ Gpu(c) /\ Done(c) /\ Steady(c)
     /\ TEST_MODE /\ ~ERROR_SIMULATION
     /\ TEST_GPU_TYPE \in {"Nvidia", "Apple"})
    => /\ task[c].result =
            Ok(IF TEST_GPU_TYPE = "Nvidia" THEN NvidiaTestInfo
               ELSE AppleTestInfo)
       /\ task[c].result.info.gpu_type = TEST_GPU_TYPE
       /\ ~task[c].spawned

\* C2 happens: the Nvidia fixture has been returned in test mode
FixtureReturned ==
  \E c \in Callers :
    /\ Gpu(c) /\ Done(c) /\ Steady(c)
    /\ TEST_MODE /\ ~ERROR_SIMULATION /\ TEST_GPU_TYPE = "Nvidia"
    /\ task[c].result = Ok(NvidiaTestInfo)

\* C3: a real-mode call of gpu::detect_gpu that finds the cache populated
\* returns the cached record and starts no backend probe (no utility).
CacheHitSkipsProbes ==
  \A c \in Callers :
    (/\ Gpu(c) /\ Done(c) /\ Steady(c)
     /\ task[c].path = "real"
     /\ IsSome(task[c].cache0))
    => /\ task[c].result = Ok(Unwrap(task[c].cache0))
       /\ ~task[c].spawned

\* C4: once a real-mode call of gpu::detect_gpu in which a backend probe
\* succeeded has returned, the cache holds exactly the record the call
\* returned, whichever backend gave it, and no backend was probed after the
\* one that succeeded.
SuccessfulProbeIsCached ==
  \A c \in Callers :
    (/\ Gpu(c) /\ Done(c) /\ Steady(c)
     /\ task[c].path = "real"
     /\ Succeeded(task[c]))
    => /\ IsOk(task[c].result)
       /\ CACHED_GPU_INFO = Some(task[c].result.info)
       /\ task[c].probes[Len(task[c].probes)][2] = "ok"

\* C5: a real-mode call of gpu::detect_gpu in which every backend probe
\* failed or timed out returns Ok with the no-accelerator record: vendor
\* None, total memory 0, every optional field absent.
AllFailedGivesNoGpu ==
  \A c \in Callers :
    (/\ Gpu(c) /\ Done(c)
     /\ task[c].path = "real"
     /\ Failed(task[c], "Nvidia") /\ Failed(task[c], "Apple"))
    => /\ IsOk(task[c].result)
       /\ task[c].result.info.gpu_type = "None"
       /\ task[c].result.info.memory_total_mb = 0
       /\ \A f \in {"cuda_version", "driver_version", "compute_capability",
                    "temperature_c", "power_usage_w", "utilization_percent",
                    "memory_used_mb", "memory_free_mb"} :
            task[c].result.info[f] = None

\* C5 happens: the Nvidia probe failed, the Apple probe timed out
AllProbesFailed ==
  \E c \in Callers :
    /\ Gpu(c) /\ Done(c)
    /\ task[c].probes = <<Event("Nvidia", "begin"), Event("Nvidia", "err"),
                          Event("Apple", "begin"), Event("Apple", "elapsed")>>
    /\ task[c].result = Ok(NoGpuInfo)

\* C6: a real-mode call of gpu::detect_gpu that ends with the
\* no-accelerator record leaves the cache as it found it, and the cache
\* never holds a no-accelerator record, so a later call cannot be answered
\* with one from the cache.
NoGpuIsNotCached ==
  /\ \A c \in Callers :
       (/\ Gpu(c) /\ Done(c)
        /\ task[c].path = "real"
        /\ task[c].result = Ok(NoGpuInfo))
       => /\ CACHED_GPU_INFO = task[c].cache0
          /\ ~task[c].wrote
  /\ IsSome(CACHED_GPU_INFO) => Unwrap(CACHED_GPU_INFO).gpu_type # "None"

\* C6 happens: no accelerator found after powermetrics failed, the cache
\* being empty before the call
NoGpuReturned ==
  \E c \in Callers :
    /\ Gpu(c) /\ Done(c)
    /\ task[c].path = "real"
    /\ task[c].result = Ok(NoGpuInfo)
    /\ task[c].probes[4] = Event("Apple", "err")
    /\ task[c].spawned
    /\ task[c].cache0 = None

\* C7: a call of gpu::detect_gpu during which error simulation is off
\* throughout never returns Err, whatever the test-mode flag and the
\* selector are and however set_test_mode and set_test_gpu_type interleave
\* with it.
NeverErrWithoutSimulation ==
  \A c \in Callers :
    (Gpu(c) /\ Done(c) /\ NoSimulation(c)) => IsOk(task[c].result)

\* C8: real detection probes the backends one after the other in the fixed
\* order Nvidia, Apple: the second only after the first has failed or timed
\* out, none twice, and the one that waits for a utility is the only one
\* begun and not ended.
SequentialProbes ==
  \A c \in Callers :
    LET p == task[c].probes IN
    (Gpu(c) /\ task[c].path = "real")
    => /\ Len(p) \in 1..4
       /\ p[1] = Event("Nvidia", "begin")
       /\ Len(p) >= 2 => p[2][1] = "Nvidia" /\ p[2][2] \in Ends
       /\ Len(p) >= 3 => /\ p[2][2] \in {"err", "elapsed"}
                         /\ p[3] = Event("Apple", "begin")
       /\ Len(p) >= 4 => p[4][1] = "Apple" /\ p[4][2] \in Ends
       /\ Running(c) => Len(p) = IF task[c].pc \in ApplePcs THEN 3 ELSE 1
       /\ Done(c) => Len(p) \in {2, 4}

\* C8 happens: the Apple probe is waiting for ioreg after the Nvidia probe
\* timed out
AppleProbedAfterNvidia ==
  \E c \in Callers :
    /\ Gpu(c) /\ task[c].path = "real"
    /\ task[c].pc = "a_ioreg"
    /\ task[c].probes = <<Event("Nvidia", "begin"), Event("Nvidia", "elapsed"),
                          Event("Apple", "begin")>>

\* C9: every real-mode call of gpu::detect_gpu eventually returns, also
\* when a utility never ends: the timeout ends the wait.
RealCallReturns ==
  \A c \in Callers :
    (Gpu(c) /\ task[c].path = "real" /\ task[c].pc # "done")
      ~> (task[c].pc = "done")

\* no real-mode call waits for ever: it returns, or its task dies in
\* get_cuda_device_properties
RealCallEnds ==
  \A c \in Callers :
    (Gpu(c) /\ task[c].path = "real" /\ Running(c))
      ~> (task[c].pc \in {"done", "panicked"})

\* C10: every call of commands::detect_gpu eventually returns, also when
\* ioreg or powermetrics never ends.
CommandReturns ==
  \A c \in Callers :
    (task[c].entry = "cmd" /\ task[c].pc # "done")
      ~> (task[c].pc = "done")

\* a record of "no accelerator": vendor None, total memory 0, every
\* optional field absent
NoAccelerator(info) ==
  /\ info.gpu_type = "None"
  /\ info.memory_total_mb = 0
  /\ \A f \in {"cuda_version", "driver_version", "compute_capability",
               "temperature_c", "power_usage_w", "utilization_percent",
               "memory_used_mb", "memory_free_mb"} : info[f] = None

\* the flag has been on (off) ever since the call began
TestModeOn(c) == TEST_MODE /\ "TEST_MODE" \notin task[c].changed
TestModeOff(c) == ~TEST_MODE /\ "TEST_MODE" \notin task[c].changed

\* apple::detect_gpu has returned an Err to the call
AppleFailed(c) ==
  \E i \in 1..Len(task[c].probes) : task[c].probes[i] = Event("Apple", "err")

\* C11: with test mode and error simulation off, on a host without an Apple
\* accelerator (ioreg cannot be run, exits non-zero or names no Apple
\* Silicon model) apple::detect_gpu does not return Err, and
\* commands::detect_gpu returns Ok with gpu_type None and memory_total_mb 0.
NoAppleGivesNoGpu ==
  \A c \in Callers :
    (/\ Done(c) /\ Steady(c)
     /\ ~TEST_MODE /\ ~ERROR_SIMULATION
     /\ task[c].ioreg \in {"spawn_error", "exit_failure", "no_model"})
    => /\ ~AppleFailed(c)
       /\ task[c].entry = "cmd"
            => /\ IsOk(task[c].result)
               /\ task[c].result.info.gpu_type = "None"
               /\ task[c].result.info.memory_total_mb = 0

AppleFixtureValues ==
  \A c \in Callers :
    (/\ Done(c) /\ Steady(c)
     /\ TEST_MODE /\ ~ERROR_SIMULATION /\ TEST_GPU_TYPE = "Apple")
    => /\ IsOk(task[c].result)
       /\ task[c].result.info.gpu_type = "Apple"
       /\ task[c].result.info.memory_total_mb = 8192
       /\ task[c].result.info.temperature_c = Some([neg |-> FALSE, n |-> 45, s |-> 0])
       /\ task[c].result.info.power_usage_w = Some([neg |-> FALSE, n |-> 15, s |-> 0])
       /\ task[c].result.info.utilization_percent = Some([neg |-> FALSE, n |-> 30, s |-> 0])

\* C14 happens: gpu::detect_gpu has returned the Apple record in test mode
AppleFixtureReturned ==
  \E c \in Callers :
    /\ Gpu(c) /\ Done(c) /\ Steady(c)
    /\ TEST_MODE /\ ~ERROR_SIMULATION /\ TEST_GPU_TYPE = "Apple"
    /\ task[c].probes = <<Event("Apple", "begin"), Event("Apple", "ok")>>
    /\ IsOk(task[c].result)
    /\ task[c].result.info.memory_total_mb = 8192

\* C15: in real mode with an empty cache, where the Nvidia probe succeeds
\* with total memory 4096 (and the Apple utility is absent), detect_gpu
\* returns vendor Nvidia with total memory 4096, and the Apple probe was
\* attempted first, before the Nvidia probe.
FallbackTriesAppleFirst ==
  \A c \in Callers :
    (/\ Gpu(c) /\ Done(c) /\ Steady(c)
     /\ task[c].path = "real"
     /\ task[c].cache0 = None
     /\ \E i \in 1..Len(task[c].probes) :
          task[c].probes[i] = Event("Nvidia", "ok")
     /\ IsOk(task[c].result)
     /\ task[c].result.info.memory_total_mb = 4096)
    => /\ task[c].result.info.gpu_type = "Nvidia"
       /\ \E i, j \in 1..Len(task[c].probes) :
            /\ i < j
            /\ task[c].probes[i] = Event("Apple", "begin")
            /\ task[c].probes[j] = Event("Nvidia", "begin")

\* C16: the outcome of a gpu::detect_gpu call is the one prescribed for a
\* single combination (error simulation, test mode, selector) that the mode
\* state held at some instant of the call.  For a call during which the two
\* flags kept their values, whatever the selector did, that is: the
\* simulated failure if error simulation is on; else, if test mode is on,
\* the fixture of some selector value (or the no-accelerator record); else
\* the Ok result of real detection.
SingleCombination ==
  \A c \in Callers :
    (/\ Gpu(c) /\ Done(c)
     /\ "ERROR_SIMULATION" \notin task[c].changed
     /\ "TEST_MODE" \notin task[c].changed)
    => IF ERROR_SIMULATION THEN task[c].result = Err(SimulatedError)
       ELSE IF TEST_MODE
       THEN \/ task[c].result = Ok(NvidiaTestInfo)
            \/ task[c].result = Ok(AppleTestInfo)
            \/ task[c].result = Ok(NoGpuInfo)
       ELSE task[c].path = "real" /\ IsOk(task[c].result)

\* C17: every record returned by detect_gpu in which used and free memory
\* are both present has memory_used_mb + memory_free_mb = memory_total_mb.
MemoryAddsUp ==
  \A c \in Callers :
    (/\ Done(c) /\ IsOk(task[c].result)
     /\ IsSome(task[c].result.info.memory_used_mb)
     /\ IsSome(task[c].result.info.memory_free_mb))
    => Unwrap(task[c].result.info.memory_used_mb)
         + Unwrap(task[c].result.info.memory_free_mb)
       = task[c].result.info.memory_total_mb

\* C18: every record returned by a detect_gpu call, and every record in the
\* cache, whose vendor is None has total memory 0 and every optional field
\* absent.
VendorNoneIsEmpty ==
  /\ \A c \in Callers :
       (/\ Done(c) /\ IsOk(task[c].result)
        /\ task[c].result.info.gpu_type = "None")
       => NoAccelerator(task[c].result.info)
  /\ (IsSome(CACHED_GPU_INFO) /\ Unwrap(CACHED_GPU_INFO).gpu_type = "None")
     => NoAccelerator(Unwrap(CACHED_GPU_INFO))

\* C18 happens: a record of vendor None returned by real detection after
\* the Nvidia probe timed out and ioreg could not be run
VendorNoneReturned ==
  \E c \in Callers :
    /\ Gpu(c) /\ Done(c)
    /\ Len(task[c].probes) = 4
    /\ task[c].probes[2] = Event("Nvidia", "elapsed")
    /\ task[c].ioreg = "spawn_error"
    /\ IsOk(task[c].result)
    /\ task[c].result.info.gpu_type = "None"

\* C19: a metrics sub-call that fails does not fail the probe: once ioreg
\* has named the accelerator (and so its total memory is known),
\* apple::detect_gpu does not return Err, whatever becomes of powermetrics,
\* and commands::detect_gpu returns Ok with vendor Apple.
MetricsFailureDegrades ==
  \A c \in Callers :
    (/\ Steady(c) /\ ~TEST_MODE /\ ~ERROR_SIMULATION
     /\ task[c].ioreg = "model")
    => /\ ~AppleFailed(c)
       /\ (Done(c) /\ task[c].entry = "cmd")
            => /\ IsOk(task[c].result)
               /\ task[c].result.info.gpu_type = "Apple"

\* C20: a detect_gpu call during which test mode is on, or which is made
\* while error simulation is on, neither reads nor writes the cache: it
\* never reaches the cache lookup of apple::detect_gpu or what follows it,
\* it stores nothing, the cache is as it was when the call began, and the
\* result is the simulated failure or, for the command, the Apple fixture,
\* whatever the cache holds.
TestModeLeavesCache ==
  \A c \in Callers :
    /\ (task[c].pc # "idle" /\ TestModeOn(c))
       => /\ task[c].pc \notin {"a_cache", "a_ioreg", "a_powermetrics"}
          /\ ~task[c].wrote
          /\ CACHED_GPU_INFO = task[c].cache0
          /\ (Done(c) /\ task[c].entry = "cmd" /\ NoSimulation(c))
               => task[c].result = Ok(AppleTestInfo)
    /\ (/\ task[c].pc # "idle" /\ ERROR_SIMULATION
        /\ "ERROR_SIMULATION" \notin task[c].changed)
       => /\ Done(c)
          /\ task[c].result = Err(SimulatedError)
          /\ ~task[c].wrote
          /\ CACHED_GPU_INFO = task[c].cache0

\* C20 happens: the command has returned the Apple fixture in test mode
\* while the cache holds another record
FixtureDespiteCache ==
  \E c \in Callers :
    /\ Done(c) /\ TestModeOn(c) /\ NoSimulation(c)
    /\ task[c].entry = "cmd"
    /\ IsSome(task[c].cache0)
    /\ Unwrap(task[c].cache0) # AppleTestInfo
    /\ CACHED_GPU_INFO = task[c].cache0
    /\ task[c].result = Ok(AppleTestInfo)

(***************************************************************************)
(* Repeated detection.                                                     *)
(***************************************************************************)
\* the host behaves in call t as it did in the caller's previous call: the
\* Nvidia probe ends the same way, and an Apple probe that did not succeed
\* then ends now as it ended then
HostAsBefore(t) ==
  LET p == t.probes
      q == Unwrap(t.last).probes
  IN /\ p[2] = q[2]
     /\ (Len(q) = 4 /\ q[4][2] # "ok") => (Len(p) = 4 /\ p[4] = q[4])

NotesWrite(c, name) ==
  name \in task'[c].changed /\ name \notin task[c].changed

\* the static "name" of a call that has not yet noted a write of it changes
\* in a step exactly if a setter wrote a different value into it
WrittenOnly(c, name, differs) ==
  (task[c].pc # "idle" /\ name \notin task[c].changed)
    => (differs <=> NotesWrite(c, name))

\* C22: when the process starts test mode is off, error simulation is off
\* and the selector is None; after that a static changes only when its own
\* setter writes a different value into it, a setter leaves the other two
\* statics as they are, and the getters that detect_gpu calls return what
\* the statics hold.
ModeStateKeepsWrites ==
  /\ TEST_MODE = FALSE /\ ERROR_SIMULATION = FALSE /\ TEST_GPU_TYPE = "None"
  /\ [][/\ TEST_MODE' # TEST_MODE
            => UNCHANGED <<ERROR_SIMULATION, TEST_GPU_TYPE>>
        /\ ERROR_SIMULATION' # ERROR_SIMULATION
            => UNCHANGED <<TEST_MODE, TEST_GPU_TYPE>>
        /\ TEST_GPU_TYPE' # TEST_GPU_TYPE
            => UNCHANGED <<TEST_MODE, ERROR_SIMULATION>>
        /\ \A c \in Callers :
             /\ WrittenOnly(c, "TEST_MODE", TEST_MODE' # TEST_MODE)
             /\ WrittenOnly(c, "ERROR_SIMULATION",
                            ERROR_SIMULATION' # ERROR_SIMULATION)
             /\ WrittenOnly(c, "TEST_GPU_TYPE",
                            TEST_GPU_TYPE' # TEST_GPU_TYPE)
             /\ (task[c].pc = "idle" /\ task'[c].entry = "gpu")
                  => (ERROR_SIMULATION
                        <=> task'[c].result = Err(SimulatedError))
             /\ (task[c].pc = "g_test" /\ task'[c].pc # "g_test")
                  => (TEST_MODE <=> task'[c].path = "test")
             /\ (task[c].pc = "g_type" /\ task'[c].pc # "g_type")
                  => IF TEST_GPU_TYPE = "None" THEN task'[c].pc = "done"
                     ELSE task'[c].probes = <<Event(TEST_GPU_TYPE, "begin")>>
       ]_vars

\* all three statics differ from their defaults, each written while one
\* call was running
AllThreeWritten ==
  \E c \in Callers :
    /\ TEST_MODE /\ ERROR_SIMULATION /\ TEST_GPU_TYPE = "Apple"
    /\ task[c].changed = {"TEST_MODE", "ERROR_SIMULATION", "TEST_GPU_TYPE"}

(***************************************************************************)
(* The Nvidia backend without nvidia-smi.                                  *)
(***************************************************************************)
\* C23: when nvidia::detect_gpu has found error simulation off and has gone
\* on to the real query, and nvidia-smi could not be started or ended with
\* a non-zero status, it returns Err("NVIDIA GPU not found") and never Ok:
\* the call it serves gets that error (test path) or goes on without an
\* Nvidia record (real path).
NvidiaNotFound ==
  \A c \in Callers :
    LET t == task[c] IN
    t.nvidia_smi \in {"spawn_error", "exit_failure"}
    => /\ Len(t.errors) >= 1 /\ t.errors[1] = "NVIDIA GPU not found"
       /\ \A i \in 1..Len(t.probes) : t.probes[i] # Event("Nvidia", "ok")
       /\ \E i \in 1..Len(t.probes) : t.probes[i] = Event("Nvidia", "err")
       /\ (Done(c) /\ ~Timed(t)) => t.result = Err("NVIDIA GPU not found")
       /\ (Done(c) /\ IsOk(t.result)) => t.result.info.gpu_type # "Nvidia"

\* a real-mode call whose nvidia-smi ended with a non-zero status
NvidiaSmiFailed ==
  \E c \in Callers :
    LET t == task[c] IN
    /\ Gpu(c) /\ Done(c) /\ Steady(c) /\ ~TEST_MODE /\ ~ERROR_SIMULATION
    /\ t.nvidia_smi = "exit_failure"
    /\ t.errors[1] = "NVIDIA GPU not found"

(***************************************************************************)
(* Properties of get_hardware_info.                                        *)
(***************************************************************************)
Hardware(c) == task[c].entry = "hardware"

\* C24: a record that get_hardware_info returns as Ok has at least one CPU,
\* a brand that is not blank, a total memory above zero and a used memory
\* that is at most the total; a reading without these is never returned
\* as Ok.
HardwareInfoIsValid ==
  \A c \in Callers :
    (Hardware(c) /\ Done(c) /\ IsOk(task[c].result))
    => LET info == task[c].result.info IN
       /\ info.cpu_count >= 1
       /\ \E i \in 1..Len(info.cpu_brand) : ~IsWs(info.cpu_brand[i])
       /\ info.memory_total > 0
       /\ info.memory_used <= info.memory_total

\* Ok is returned after an attempt whose reading had more used than total
\* memory was turned down
ValidAfterInvalidReading ==
  \E c \in Callers :
    /\ Hardware(c) /\ Done(c) /\ IsOk(task[c].result)
    /\ Len(task[c].tried) = 2
    /\ IsErr(task[c].tried[1])
    /\ task[c].tried[1].msg = "Used memory exceeds total memory"

AllErr(tried, n) == \A i \in 1..n : IsErr(tried[i])

\* the attempts of a call of get_hardware_info follow the loop: never more
\* than MAX_RETRIES, Ok from the first attempt that gave a valid reading and
\* none after it, Err with the last error once MAX_RETRIES attempts failed
AttemptsBounded ==
  \A c \in Callers :
    LET t == task[c]
        n == Len(t.tried)
    IN Hardware(c)
       => /\ n <= MAX_RETRIES
          /\ t.pc = "h_try" => (n = t.attempt - 1 /\ AllErr(t.tried, n))
          /\ t.pc = "h_sleep"
               => (n = t.attempt /\ n < MAX_RETRIES /\ AllErr(t.tried, n))
          /\ (Done(c) /\ IsOk(t.result))
               => (n >= 1 /\ t.tried[n] = t.result /\ AllErr(t.tried, n - 1))
          /\ (Done(c) /\ IsErr(t.result))
               => (n = MAX_RETRIES /\ AllErr(t.tried, n)
                   /\ t.result = t.tried[n])

\* C25: get_hardware_info always ends, after at most MAX_RETRIES = 3
\* attempts: with Ok at the first attempt that collected a valid reading
\* and without a further attempt, with Err after the third failed attempt.
HardwareInfoEnds ==
  /\ []AttemptsBounded
  /\ \A c \in Callers : (Hardware(c) /\ ~Done(c)) ~> (Hardware(c) /\ Done(c))

\* three attempts have failed and the call has returned the last error
ThirdAttemptFailed ==
  \E c \in Callers :
    /\ Hardware(c) /\ Done(c) /\ IsErr(task[c].result)
    /\ Len(task[c].tried) = 3 /\ task[c].attempt = 3
    /\ task[c].tried[1] # task[c].tried[3]

(***************************************************************************)
(* The command and the backends in test mode.                              *)
(***************************************************************************)
Cmd(c) == task[c].entry = "cmd"

\* C26: commands::detect_gpu returns what gpu::detect_gpu returns in the
\* same mode state and with the same outcomes of the backends: the
\* simulated error; in test mode the fixture of the selected backend, or the
\* no-accelerator record for the selector None; in real mode the Nvidia
\* probe first, then the Apple probe, and Ok with the no-accelerator record
\* when both fail.
CommandFollowsOrchestrator ==
  \A c \in Callers :
    LET t == task[c] IN
    (Cmd(c) /\ Done(c) /\ Steady(c))
    => IF ERROR_SIMULATION THEN t.result = Err(SimulatedError)
       ELSE IF TEST_MODE
       THEN t.result = Ok(CASE TEST_GPU_TYPE = "Nvidia" -> NvidiaTestInfo
                            [] TEST_GPU_TYPE = "Apple" -> AppleTestInfo
                            [] OTHER -> NoGpuInfo)
       ELSE /\ IsOk(t.result)
            /\ t.probes[1] = Event("Nvidia", "begin")
            /\ AppleFailed(c) => t.result = Ok(NoGpuInfo)

\* C27: a call during which test mode has been on and error simulation off
\* starts no external utility, whichever backend's detect_gpu serves it and
\* whatever the selector holds.
TestModeStartsNoUtility ==
  \A c \in Callers :
    (TestModeOn(c) /\ NoSimulation(c) /\ task[c].probes # <<>>)
    => ~task[c].spawned

(***************************************************************************)
(* The cache under concurrent calls.                                       *)
(***************************************************************************)
\* the records that one run of ioreg and powermetrics can give
ProbeRecords ==
  {r.info : r \in {q \in {AppleInfo(parse_gpu_info(FromUtf8Lossy(io.stdout)), pm) :
                             io \in {o \in IoregOutputs : o.status = "success"},
                             pm \in PowermetricsOutputs} : IsOk(q)}}

\* C28: with several real-mode calls in flight nothing joins them: a call
\* that finds the cache empty starts its own ioreg, whatever the other call
\* is doing.  The cache is empty or holds one whole record of one
\* successful probe, each change of it is the store of the call that
\* returns that record, and once filled it is never empty again.
CacheHoldsWholeRecords ==
  /\ [](IsSome(CACHED_GPU_INFO) => Unwrap(CACHED_GPU_INFO) \in ProbeRecords)
  /\ [][/\ IsSome(CACHED_GPU_INFO) => IsSome(CACHED_GPU_INFO')
        /\ CACHED_GPU_INFO' # CACHED_GPU_INFO
            => \E c \in Pair :
                 /\ task[c].pc = "a_powermetrics"
                 /\ task'[c].wrote
                 /\ task'[c].result = Ok(Unwrap(CACHED_GPU_INFO'))
        /\ \A c \in Pair :
             (task[c].pc = "a_cache" /\ task'[c].pc # "a_cache"
                /\ CACHED_GPU_INFO = None)
             => (task'[c].pc = "a_ioreg" /\ task'[c].spawned)
       ]_vars

\* both callers found the cache empty, each ran its own probe, and the
\* cache holds the record of the second to store, which differs from the
\* first one's
BothProbedLastWriterWins ==
  /\ \A c \in Pair : task[c].pc = "done" /\ task[c].wrote
                       /\ task[c].cache0 = None
  /\ task["t1"].result # task["t2"].result
  /\ task["t2"].result = Ok(Unwrap(CACHED_GPU_INFO))

\* C29: when the wait for an Apple probe has been given up at the deadline
\* and the utility it had started then ends with success, the record of
\* that probe gets into the cache.
AbandonedProbeIsCached ==
  \A c \in Callers :
    (task[c].abandoned = "exited") ~> IsSome(CACHED_GPU_INFO)

\* caller c comes to position pc in this step
Enters(c, pc) == task'[c].pc = pc /\ task[c].pc # pc

\* C30: whatever the setters do while calls run, the cache never holds a
\* test fixture and never a record of vendor None: what it holds was built
\* from what ioreg and powermetrics printed, by a call that started them
\* after apple::detect_gpu had read error simulation off and then test mode
\* off.
CacheHoldsProbedRecords ==
  /\ [](IsSome(CACHED_GPU_INFO)
          => /\ Unwrap(CACHED_GPU_INFO) \in ProbeRecords
             /\ Unwrap(CACHED_GPU_INFO) \notin {AppleTestInfo, NvidiaTestInfo}
             /\ Unwrap(CACHED_GPU_INFO).gpu_type # "None")
  /\ [][\A c \in Callers :
          /\ CACHED_GPU_INFO' # CACHED_GPU_INFO
              => /\ task[c].pc = "a_powermetrics"
                 /\ task[c].ioreg = "model" /\ task[c].spawned
                 /\ task'[c].result = Ok(Unwrap(CACHED_GPU_INFO'))
          /\ Enters(c, "a_powermetrics") => task[c].pc = "a_ioreg"
          /\ Enters(c, "a_ioreg") => task[c].pc = "a_cache"
          /\ Enters(c, "a_cache") => (task[c].pc = "a_test" /\ ~TEST_MODE)
          /\ Enters(c, "a_test")
              => (task[c].pc \in {"a_err", "idle"} /\ ~ERROR_SIMULATION)
       ]_vars

\* test mode and error simulation were switched on while the probe ran,
\* and the cache holds the record the probe built
ProbedRecordCachedInTestMode ==
  \E c \in Callers :
    /\ Done(c) /\ task[c].wrote
    /\ TEST_MODE /\ ERROR_SIMULATION
    /\ {"TEST_MODE", "ERROR_SIMULATION"} \subseteq task[c].changed
    /\ task[c].result = Ok(Unwrap(CACHED_GPU_INFO))

(***************************************************************************)
(* The Nvidia backend and the output of nvidia-smi.                        *)
(***************************************************************************)
\* C31: in real mode, when nvidia-smi ends with success and has printed the
\* six fields that detect_gpu queries (total, used and free memory,
\* temperature, power, utilization), detect_gpu takes the six numbers from
\* them in that order and goes on to build the Nvidia record with them; it
\* does not return an error.
SixFieldsGiveRecord ==
  \A c \in Callers :
    (task[c].pc = "n_smi" /\ Timed(task[c]) /\ Steady(c))
    => LET u == NvidiaSmiExits(task[c],
                  [status |-> "success", stdout |-> SmiSixFields])
       IN /\ u.pc = "n_cuda"
          /\ u.errors = <<>>
          /\ IsSome(u.smi)
          /\ Unwrap(u.smi).memory_total = 4096
          /\ Unwrap(u.smi).memory_used = 1024
          /\ Unwrap(u.smi).memory_free = 3072
          /\ Some(Unwrap(u.smi).temperature) = ParseF32(<<"4", "5">>)
          /\ Some(Unwrap(u.smi).power) = ParseF32(<<"1", "5", ".", "5">>)
          /\ Some(Unwrap(u.smi).utilization) = ParseF32(<<"3", "0">>)

\* C32: get_cuda_device_properties never aborts: whatever nvidia-smi
\* prints, with two fields or any other number of them, the call of
\* detect_gpu goes on, at worst without a compute capability.
DevicePropertiesNeverAbort ==
  \A c \in Callers : task[c].pc # "panicked"

(***************************************************************************)
(* The errors of get_hardware_info and validate.                           *)
(***************************************************************************)
\* C33: when all three attempts of get_hardware_info have failed it returns
\* the error of the third, from collection or from validation, and never
\* the SystemError "Failed to retrieve hardware information after multiple
\* attempts"; a failed attempt is followed by the delay, except the third,
\* which ends the call, and an attempt begins only with the call or after
\* a delay.
LastErrorReturned ==
  /\ [](\A c \in Callers :
          (Hardware(c) /\ Done(c) /\ IsErr(task[c].result))
          => /\ Len(task[c].tried) = MAX_RETRIES
             /\ task[c].result = task[c].tried[MAX_RETRIES]
             /\ task[c].last_error = Some(task[c].tried[MAX_RETRIES])
             /\ task[c].result.kind # "SystemError")
  /\ [][\A c \in Callers :
          /\ (task[c].pc = "h_try" /\ task'[c].pc # "h_try"
                /\ IsErr(task'[c].tried[Len(task'[c].tried)]))
              => IF task[c].attempt < MAX_RETRIES
                 THEN task'[c].pc = "h_sleep" ELSE task'[c].pc = "done"
          /\ Enters(c, "h_try") => task[c].pc \in {"idle", "h_sleep"}
          /\ Enters(c, "h_sleep") => task[c].attempt < MAX_RETRIES
       ]_vars

\* collection failed in the first attempt, validation in the third, and the
\* call returned the third attempt's error
ValidationErrorReturned ==
  \E c \in Callers :
    /\ Hardware(c) /\ Done(c) /\ IsErr(task[c].result)
    /\ task[c].tried[1].msg = "No CPU cores detected"
    /\ task[c].tried[3].msg = "Used memory exceeds total memory"
    /\ task[c].result = task[c].tried[3]

\* C34: HardwareInfo::validate returns Err exactly when cpu_count is 0, or
\* cpu_brand is empty or only whitespace, or memory_total is 0, or
\* memory_used exceeds memory_total, and Ok otherwise; the conditions are
\* checked in that order and the first one that fails decides the error:
\* CpuError for the first two, MemoryError for the last two.
ValidateFirstFailureDecides ==
  \A c \in Callers :
    (task[c].entry = "validate" /\ Done(c))
    => LET info == Unwrap(task[c].input)
           r == task[c].result
           failing == <<info.cpu_count = 0,
                        \A i \in 1..Len(info.cpu_brand) : IsWs(info.cpu_brand[i]),
                        info.memory_total = 0,
                        info.memory_used > info.memory_total>>
           errors == <<HardwareError("CpuError", "Invalid CPU count"),
                       HardwareError("CpuError", "Invalid CPU brand information"),
                       HardwareError("MemoryError", "Invalid total memory value"),
                       HardwareError("MemoryError", "Used memory exceeds total memory")>>
       IN /\ IsErr(r) <=> \E i \in 1..4 : failing[i]
          /\ IsOk(r) <=> \A i \in 1..4 : ~failing[i]
          /\ \A i \in 1..4 :
               (failing[i] /\ \A j \in 1..(i - 1) : ~failing[j])
               => r = errors[i]

\* a blank brand is reported although the used memory exceeds the total too
BlankBrandBeforeMemory ==
  \E c \in Callers :
    /\ task[c].entry = "validate" /\ Done(c)
    /\ Unwrap(task[c].input).cpu_count = 1
    /\ Unwrap(task[c].input).cpu_brand = <<" ", " ">>
    /\ Unwrap(task[c].input).memory_used > Unwrap(task[c].input).memory_total
    /\ task[c].result = HardwareError("CpuError", "Invalid CPU brand information")

\* C35: parse_gpu_info returns Ok with vendor Apple exactly when the text
\* contains one of "M1 Pro", "M1 Max", "M1", "M2", and
\* Err("No Apple Silicon GPU found") otherwise; in the Ok case
\* memory_total_mb is the unsigned integer after "=" on the first line
\* containing "gpu-memory-total-size", or 8192 when that line is missing or
\* its value does not parse, and every optional field is absent.
ParseGpuInfoByModelAndSize ==
  \A c \in Callers :
    (task[c].entry = "parse" /\ Done(c))
    => LET output == Unwrap(task[c].input)
           r == task[c].result
           named == \E m \in {StrM1Pro, StrM1Max, StrM1, StrM2} :
                      Contains(output, m)
           ls == Lines(output)
           sized == {i \in 1..Len(ls) : Contains(ls[i], StrGpuMemoryTotalSize)}
           parts == IF sized = {} THEN <<>>
                    ELSE Split(ls[CHOOSE i \in sized : \A j \in sized : i <= j], "=")
           value == IF Len(parts) < 2 THEN None ELSE ParseU32(Trim(parts[2]))
           memory == IF IsSome(value) THEN Unwrap(value) ELSE 8192
       IN /\ IsOk(r) <=> named
          /\ named => r = Ok(GpuInfo("Apple", None, None, None, None, None,
                                     None, memory, None, None))
          /\ ~named => r = Err("No Apple Silicon GPU found")

\* an M1 Max whose size line holds no number is reported with 8192 MB
UnparsedSizeGivesDefault ==
  \E c \in Callers :
    /\ task[c].entry = "parse" /\ Done(c)
    /\ Contains(Unwrap(task[c].input), StrM1Max)
    /\ IsSome(FindLine(Unwrap(task[c].input), StrGpuMemoryTotalSize))
    /\ IsOk(task[c].result)
    /\ task[c].result.info.gpu_type = "Apple"
    /\ task[c].result.info.memory_total_mb = 8192

====
